---------------------------- MODULE Spec2Model ----------------------------
(* Arbitrage bot between Polymarket and Probo: configuration loading,      *)
(* the opportunity evaluator, the dual-venue executor (findAndExecArb),    *)
(* the history store and the polling orchestrator (startArbBot), with the  *)
(* CLI entry points that start them.                                       *)
(*                                                                         *)
(* Units: a price is held in hundredths of the venue's unit (0.74 -> 74,   *)
(* 2.0 -> 200), so the payout 10 is 1000 and a percentage is held in       *)
(* hundredths of a percent.  A number the evaluator computes in double     *)
(* arithmetic (combined price, profit) is held as Exact(d) + e, where d is *)
(* the decimal result and e in {-1, 0, 1} is the sign of the double's      *)
(* rounding error, so that comparisons come out as they do in JavaScript.  *)
(* A quantity is a rational <<n, d>>; <<0, 0>> is JavaScript's NaN.        *)
EXTENDS Integers, Sequences, FiniteSets, TLC

\* ------------------------------------------------------------ bounds
\* Polling cycles explored before the model stops starting new ones.
MaxCycles == 2
\* Price levels in a sell book handed to the evaluator on its own.
MaxLevels == 3
\* Opportunities the history holds before the model stops evaluating.
MaxRecorded == 2
\* Polling cycles explored on the long runs that reach the status log.
MaxStatusCycles == 61

\* ------------------------------------------------------- small helpers
Null == <<>>
Some(x) == <<x>>
IsNull(x) == x = <<>>
Val(x) == x[1]

\* ----------------------------------------------------------- config.ts
\* An environment value is <<>> (unset) or <<n>> (set to the number n).
\* Number(process.env.X) || d: unset gives NaN, and NaN and 0 are falsy.
EnvNum(e, d) == IF e = <<>> THEN d ELSE IF e[1] = 0 THEN d ELSE e[1]

\* process.env.DRY_RUN === "true" || false
EnvFlag(isTrue) == isTrue

\* The values the model supplies for MAX_RETRIES, EXPECTED_ARB_PERCENT_MIN
\* and DOLLAR_PRICE_INR.
EnvRetryValues == {<<>>, <<0>>, <<1>>}
EnvMinProfitValues == {<<>>, <<0>>, <<7>>}
EnvRateValues == {<<>>, <<0>>}

DefaultMaxRetries == 3
DefaultMinProfit == 5
DefaultRate == 85

\* The module-level defaultConfig object, built once when config.ts loads.
MakeDefaultConfig(dry, eRetries, eMin, eRate) ==
  [ dryRun                |-> EnvFlag(dry),
    maxRetries            |-> EnvNum(eRetries, DefaultMaxRetries),
    expectedArbPercentMin |-> EnvNum(eMin, DefaultMinProfit),
    dollarPriceInr        |-> EnvNum(eRate, DefaultRate) ]

\* -------------------------------------------------------- utils/helpers.ts
\* A sell book is the sequence of its levels in Object.keys order.  A level
\* is [key, qty]; a key is <<price, canonical>>: the number the key string
\* parses to, and whether the string is the one Number.prototype.toString
\* gives back ("2" and "0.74" are, "2.0" and "0.740" are not).
PolyKeys == {<<74, TRUE>>, <<80, TRUE>>}
ProboKeys == {<<200, TRUE>>}
PolyQtys == {0, 100}
ProboQtys == {0, 1000}

\* The books of at most n levels with keys from K and quantities from Q, no
\* price twice, in every key order.
BooksUpTo(K, Q, n) ==
  UNION { { s \in [1..m -> [key : K, qty : Q]] :
              \A i, j \in 1..m : i # j => s[i].key[1] # s[j].key[1] } :
          m \in 0..n }

\* What the venues return to the polling loop: every level, lowest price first.
PolyBooks ==
  { s \in BooksUpTo(PolyKeys, PolyQtys, Cardinality(PolyKeys)) :
      /\ Len(s) = Cardinality(PolyKeys)
      /\ \A i, j \in DOMAIN s : i < j => s[i].key[1] < s[j].key[1] }
ProboBooks ==
  { s \in BooksUpTo(ProboKeys, ProboQtys, Cardinality(ProboKeys)) :
      /\ Len(s) = Cardinality(ProboKeys)
      /\ \A i, j \in DOMAIN s : i < j => s[i].key[1] < s[j].key[1] }

NaNQ == <<0, 0>>
IsNaN(q) == q[2] = 0
\* a <= b on rationals with positive denominators; false when either is NaN
LeqQ(a, b) == ~IsNaN(a) /\ ~IsNaN(b) /\ a[1] * b[2] <= b[1] * a[2]

\* Mutant: levels with quantity 0 count as asks.
AskPricesAnyQuantity(book) ==
  LET kept == SelectSeq(book, LAMBDA l : l.qty >= 0)
  IN  [i \in DOMAIN kept |-> kept[i].key[1]]

\* Object.keys(depth.sell).filter(p => Number(depth.sell[p]) > 0).map(Number)
AskPrices(book) ==
  LET kept == SelectSeq(book, LAMBDA l : l.qty > 0)
  IN  [i \in DOMAIN kept |-> kept[i].key[1]]

\* .sort((a, b) => a - b)
RECURSIVE SortAscending(_)
SortAscending(s) ==
  LET RECURSIVE Insert(_, _)
      Insert(x, t) ==
        IF t = << >> THEN << x >>
        ELSE IF x - Head(t) <= 0 THEN << x >> \o t
        ELSE << Head(t) >> \o Insert(x, Tail(t))
  IN  IF s = << >> THEN << >> ELSE Insert(Head(s), SortAscending(Tail(s)))

\* Mutant: the prices are not sorted before the first is taken.
findFirstAskPrice(book) ==
  LET sellPrices == AskPrices(book)
  IN  IF Len(sellPrices) > 0 THEN Some(sellPrices[1]) ELSE Null

\* findLowestAskPrice: sellPrices.length > 0 ? sellPrices[0] : null
findLowestAskPrice(book) ==
  LET sellPrices == SortAscending(AskPrices(book))
  IN  IF Len(sellPrices) > 0 THEN Some(sellPrices[1]) ELSE Null

\* Number(depth.sell[price.toString()]): the entry under the canonical key,
\* NaN when the book has no such key.
QtyAt(book, price) ==
  LET hits == SelectSeq(book, LAMBDA l : l.key = <<price, TRUE>>)
  IN  IF hits = << >> THEN NaNQ ELSE <<hits[1].qty, 1>>

\* qty * (config.dollarPriceInr / 10) and qty / (config.dollarPriceInr / 10);
\* NaN stays NaN.
TimesRate(q, rate) == <<q[1] * rate, q[2] * 10>>
OverRate(q, rate) == <<q[1] * 10, q[2] * rate>>

\* Doubles.  Grain units make one hundredth, leaving room for the sign of a
\* rounding error between two neighbouring decimal values.
Grain == 2
Exact(x) == x * Grain

\* polyPrice * 10 + proboPrice as a decimal, in hundredths.
DecimalCombined(polyPrice, proboPrice) == polyPrice * 10 + proboPrice

\* Sign of (the double polyPrice * 10 + proboPrice) - (the decimal result):
\*   0.74*10+1.7 = 9.1 (below 9.1)    0.74*10+2 = 9.4 (above 9.4)
\*   0.8*10+1.7  = 9.7 (below 9.7)    0.8*10+2  = 10
\*   0.83*10+1.7 = 9.999999999999998  0.83*10+2 = 10.299999999999999
\*   0.85*10+1.7 = 10.2 (below 10.2)  0.85*10+2 = 10.5
CombinedError(polyPrice, proboPrice) ==
  CASE <<polyPrice, proboPrice>> = <<74, 170>> -> -1
    [] <<polyPrice, proboPrice>> = <<74, 200>> -> 1
    [] <<polyPrice, proboPrice>> = <<80, 170>> -> -1
    [] <<polyPrice, proboPrice>> = <<80, 200>> -> 0
    [] <<polyPrice, proboPrice>> = <<83, 170>> -> -1
    [] <<polyPrice, proboPrice>> = <<83, 200>> -> -1
    [] <<polyPrice, proboPrice>> = <<85, 170>> -> -1
    [] <<polyPrice, proboPrice>> = <<85, 200>> -> 0

\* Sign of (the double (10 - combinedPrice) * 10) - (the decimal result):
\*   0.74, 1.7: 9.000000000000004      0.74, 2: 5.9999999999999964
\*   0.8, 1.7:  3.000000000000007      0.8, 2:  0
\*   0.83, 1.7: 1.7763568394002505e-14 0.83, 2: -2.9999999999999893
\*   0.85, 1.7: -1.999999999999993     0.85, 2: -5
ProfitError(polyPrice, proboPrice) ==
  CASE <<polyPrice, proboPrice>> = <<74, 170>> -> 1
    [] <<polyPrice, proboPrice>> = <<74, 200>> -> -1
    [] <<polyPrice, proboPrice>> = <<80, 170>> -> 1
    [] <<polyPrice, proboPrice>> = <<80, 200>> -> 0
    [] <<polyPrice, proboPrice>> = <<83, 170>> -> 1
    [] <<polyPrice, proboPrice>> = <<83, 200>> -> 1
    [] <<polyPrice, proboPrice>> = <<85, 170>> -> 1
    [] <<polyPrice, proboPrice>> = <<85, 200>> -> 0

\* const combinedPrice = polyPrice * 10 + proboPrice
CombinedPrice(polyPrice, proboPrice) ==
  Exact(DecimalCombined(polyPrice, proboPrice)) + CombinedError(polyPrice, proboPrice)
Payout == 1000
PercentScale == 100

\* (10 - combinedPrice) * 10 as a decimal, in hundredths of a percent.
DecimalProfit(polyPrice, proboPrice) ==
  (Payout - DecimalCombined(polyPrice, proboPrice)) * 10

\* const profitPercent = (10 - combinedPrice) * 10
ProfitPercent(polyPrice, proboPrice) ==
  Exact(DecimalProfit(polyPrice, proboPrice)) + ProfitError(polyPrice, proboPrice)

\* Mutant: a combined price of exactly 10 still counts as an arbitrage.
NoArbitrageStrict(combinedPrice) == combinedPrice > Exact(Payout)

\* if (combinedPrice >= 10)
NoArbitrage(combinedPrice) == combinedPrice >= Exact(Payout)
IsViable(profitPercent, config) ==
  profitPercent >= Exact(config.expectedArbPercentMin * PercentScale)

\* Mutant: the no-arbitrage result carries the computed profit.
RejectedProfitKept(profitPercent) == profitPercent

\* profitPercent: 0 in the result of the no-arbitrage path
RejectedProfit(profitPercent) == 0

\* The result of the catch block.
ErrorResult ==
  [ found |-> FALSE, isViable |-> FALSE, profitPercent |-> 0,
    polymarketPrice |-> 0, proboPrice |-> 0,
    polymarketQty |-> <<0, 1>>, proboQty |-> <<0, 1>>,
    reason |-> "error" ]

calculateArbOpportunity(polyDepth, proboDepth, config) ==
  LET polyPrice  == findLowestAskPrice(polyDepth)
      proboPrice == findLowestAskPrice(proboDepth)
  IN
  IF IsNull(polyPrice) \/ IsNull(proboPrice)
  THEN [ found |-> FALSE, isViable |-> FALSE, profitPercent |-> 0,
         polymarketPrice |-> 0, proboPrice |-> 0,
         polymarketQty |-> <<0, 1>>, proboQty |-> <<0, 1>>,
         reason |-> "missing" ]
  ELSE
  LET pp == Val(polyPrice)
      pb == Val(proboPrice)
      combinedPrice == CombinedPrice(pp, pb)
      profitPercent == ProfitPercent(pp, pb)
  IN
  IF NoArbitrage(combinedPrice)
  THEN [ found |-> FALSE, isViable |-> FALSE,
         profitPercent |-> RejectedProfit(profitPercent),
         polymarketPrice |-> pp, proboPrice |-> pb,
         polymarketQty |-> <<0, 1>>, proboQty |-> <<0, 1>>,
         reason |-> "exceeds" ]
  ELSE
  LET polyQty  == QtyAt(polyDepth, pp)
      proboQty == QtyAt(proboDepth, pb)
      rate     == config.dollarPriceInr
      viable   == IsViable(profitPercent, config)
      polySide == LeqQ(TimesRate(polyQty, rate), proboQty)
  IN
  [ found |-> TRUE, isViable |-> viable, profitPercent |-> profitPercent,
    polymarketPrice |-> pp, proboPrice |-> pb,
    polymarketQty |-> IF polySide THEN polyQty ELSE OverRate(proboQty, rate),
    proboQty |-> IF polySide THEN TimesRate(polyQty, rate) ELSE proboQty,
    reason |-> IF viable THEN "none" ELSE "below" ]

\* The try/catch around the body: a throw inside it gives the catch result.
TryCalculate(polyDepth, proboDepth, config, throws) ==
  IF throws THEN ErrorResult
  ELSE calculateArbOpportunity(polyDepth, proboDepth, config)


\* ------------------------------------------------------ utils/database.ts
EmptyStats ==
  [ totalOpportunitiesFound |-> 0, totalExecuted |-> 0, totalSuccessful |-> 0,
    totalFailed |-> 0, highestProfitPercent |-> 0, totalProfit |-> 0 ]
EmptyDb == [ opportunities |-> <<>>, stats |-> EmptyStats ]

\* initDatabase: the parsed file when it exists and reads; otherwise the
\* module-level defaultDb object itself (written to disk first when the
\* file is missing).  fsOk = FALSE is any file-system exception.
initDatabase(dsk, defDb, fsOk) ==
  IF ~fsOk THEN [ db |-> defDb, alias |-> TRUE, disk |-> dsk ]
  ELSE IF ~IsNull(dsk) THEN [ db |-> Val(dsk), alias |-> FALSE, disk |-> dsk ]
  ELSE [ db |-> defDb, alias |-> TRUE, disk |-> Some(defDb) ]

\* saveDatabase: the write, whose failure is logged and swallowed.
saveDatabase(db, dsk, fsOk) == IF fsOk THEN Some(db) ELSE dsk

OpportunityRecord(opp) ==
  [ opportunity |-> opp, executed |-> FALSE, polymarketOrderId |-> "undefined",
    proboOrderId |-> "undefined", success |-> "undefined" ]

OpportunityStats(st, opp) ==
  [ st EXCEPT !.totalOpportunitiesFound = @ + 1,
              !.highestProfitPercent =
                 IF opp.profitPercent > @ THEN opp.profitPercent ELSE @ ]

\* Mutant: only found opportunities are recorded.
logOpportunityFoundOnly(dsk, defDb, opp, initOk, saveOk) ==
  LET i   == initDatabase(dsk, defDb, initOk)
      db2 == [ opportunities |-> IF opp.found
                                 THEN Append(i.db.opportunities, OpportunityRecord(opp))
                                 ELSE i.db.opportunities,
               stats |-> OpportunityStats(i.db.stats, opp) ]
  IN  [ disk |-> saveDatabase(db2, i.disk, saveOk),
        defaultDb |-> IF i.alias THEN db2 ELSE defDb ]

\* logOpportunity: the store after the call, as [disk, defaultDb].
logOpportunity(dsk, defDb, opp, initOk, saveOk) ==
  LET i   == initDatabase(dsk, defDb, initOk)
      db2 == [ opportunities |-> Append(i.db.opportunities, OpportunityRecord(opp)),
               stats |-> OpportunityStats(i.db.stats, opp) ]
  IN  [ disk |-> saveDatabase(db2, i.disk, saveOk),
        defaultDb |-> IF i.alias THEN db2 ELSE defDb ]

BothSucceeded(result) == result.polymarketOrder.success /\ result.proboOrder.success

\* Mutant: the profit of a failed execution is counted as realized too.
ExecutionStatsProfitAlways(st, result) ==
  IF BothSucceeded(result)
  THEN [ st EXCEPT !.totalExecuted = @ + 1, !.totalSuccessful = @ + 1,
                   !.totalProfit = @ + result.opportunity.profitPercent ]
  ELSE [ st EXCEPT !.totalExecuted = @ + 1, !.totalFailed = @ + 1,
                   !.totalProfit = @ + result.opportunity.profitPercent ]

\* logExecution's update of the stats.
ExecutionStats(st, result) ==
  IF BothSucceeded(result)
  THEN [ st EXCEPT !.totalExecuted = @ + 1, !.totalSuccessful = @ + 1,
                   !.totalProfit = @ + result.opportunity.profitPercent ]
  ELSE [ st EXCEPT !.totalExecuted = @ + 1, !.totalFailed = @ + 1 ]

MarkExecuted(opps, result) ==
  LET lastIndex == Len(opps)
  IN  IF lastIndex >= 1
      THEN [ opps EXCEPT ![lastIndex] =
               [ @ EXCEPT !.executed = TRUE,
                          !.polymarketOrderId = result.polymarketOrder.orderId,
                          !.proboOrderId = result.proboOrder.orderId,
                          !.success = IF BothSucceeded(result) THEN "true" ELSE "false" ] ]
      ELSE opps

\* logExecution: the store after the call, as [disk, defaultDb].
logExecution(dsk, defDb, result, initOk, saveOk) ==
  LET i   == initDatabase(dsk, defDb, initOk)
      db2 == [ opportunities |-> MarkExecuted(i.db.opportunities, result),
               stats |-> ExecutionStats(i.db.stats, result) ]
  IN  [ disk |-> saveDatabase(db2, i.disk, saveOk),
        defaultDb |-> IF i.alias THEN db2 ELSE defDb ]

\* ------------------------------------------------- probo.ts, polymarket.ts
\* What one createOrder call can do.  In dry-run it returns before any venue
\* call; otherwise the venue call returns an order, returns a failure, or
\* the call rejects (the case the caller's catch branches handle).
\* Mutant: the dry-run guard is missing.
DryRunIgnored(config) == FALSE

\* if (config.dryRun) return ...: the guard in front of every venue call.
DryRunShortCircuits(config) == config.dryRun

OrderOutcomes(config) ==
  IF DryRunShortCircuits(config) THEN {"ok"} ELSE {"ok", "fail", "throw"}

Placeholder == [ success |-> FALSE, orderId |-> "undefined", error |-> "Order not attempted" ]
DryRunOrder == [ success |-> TRUE, orderId |-> "dry-run-order-id", error |-> "none" ]
VenueOrder  == [ success |-> TRUE, orderId |-> "venue-order-id", error |-> "none" ]
FailedOrder == [ success |-> FALSE, orderId |-> "undefined", error |-> "venue error" ]

\* The OrderResult createOrder resolves with (outcome "ok" or "fail").
createOrder(config, outcome) ==
  IF DryRunShortCircuits(config) THEN DryRunOrder
  ELSE IF outcome = "ok" THEN VenueOrder ELSE FailedOrder

\* Whether a createOrder or approveAllowance call goes out to the venue.
ReachesVenue(config) == ~DryRunShortCircuits(config)

\* approveAllowance: true in dry-run without a transaction; otherwise the
\* transaction is mined (true) or an error is rethrown.
ApproveOutcomes(config) ==
  IF DryRunShortCircuits(config) THEN {"ok"} ELSE {"ok", "throw"}

\* getDepth raced against the 15 s timer: a book, a rejection, or the timer.
FetchOutcomes == {"ok", "error", "timeout"}

\* ------------------------------------------------------------- state
VARIABLES
  envDryRun,         \* process.env.DRY_RUN = "true", as it is now
  defaultConfig,     \* config.ts's defaultConfig object
  ethPrivateKey,     \* defaultConfig.ethPrivateKey: "" when PRIVATE_KEY is unset
  cmd,               \* entry point: "run" (runBot), "start" or "check" (cli.ts)
  optDryRun,         \* the --dry-run option of start
  pc,                \* where the single thread of control is
  exitCode,          \* Null, or Some(code) once process.exit was called
  allowanceApproved, \* startArbBot's allowanceApproved
  retries,           \* the retries counter of the loop being run
  approveCalls,      \* approveAllowance calls made
  cycleCount,        \* startArbBot's cycleCount
  statusLogs,        \* "Bot running" status lines logged
  depthProbo,        \* this cycle's Probo depth, Null when not obtained
  depthPoly,         \* this cycle's Polymarket depth, Null when not obtained
  opportunity,       \* findAndExecArb's opportunity, Null outside a call
  polyOrderResult,   \* findAndExecArb's polyOrderResult
  proboOrderResult,  \* findAndExecArb's proboOrderResult
  attempts,          \* createOrder calls of this findAndExecArb call, per venue
  lastOutcome,       \* what the last createOrder call of this call did, per venue
  lastOrder,         \* the arguments the last createOrder call of this call was
                     \* given, per venue, Null before the first
  ret,               \* what the last findAndExecArb call returned
  venueContacts,     \* "approve", "poly", "probo": the transactions and orders
                     \* sent out to a venue since the process started
  executionLogged,   \* whether this findAndExecArb call has called logExecution
  disk,              \* the history file: Null, or Some(database)
  fsBroken,          \* whether the history file's directory rejects every operation
  diskFull,          \* whether the volume is full: writes fail, reads succeed
  defaultDb,         \* database.ts's module-level defaultDb object
  fetchLog,          \* venues whose depth fetch this cycle has issued, in order
  fetchFate,         \* what the getDepth call being raced will do, "none" outside
  stale              \* venues with a getDepth call that lost its race to the
                     \* timer and has not settled yet

vars == << envDryRun, defaultConfig, ethPrivateKey, cmd, optDryRun, pc, exitCode,
           allowanceApproved, retries, approveCalls,
           cycleCount, statusLogs, depthProbo, depthPoly,
           opportunity, polyOrderResult, proboOrderResult, attempts,
           lastOutcome, lastOrder, ret, venueContacts, executionLogged, disk, fsBroken,
           diskFull,
           defaultDb,
           fetchLog, fetchFate, stale >>

cfgVars   == << defaultConfig, ethPrivateKey, cmd, optDryRun >>
startVars == << allowanceApproved, approveCalls >>
cycleVars == << cycleCount, statusLogs >>
depthVars == << depthProbo, depthPoly >>
execVars  == << opportunity, polyOrderResult, proboOrderResult, attempts,
                lastOutcome, lastOrder, ret, executionLogged >>
dbVars    == << disk, defaultDb, fsBroken, diskFull >>
fetchVars == << fetchLog, fetchFate, stale >>

\* Mutant: the minimum profit is raised once the history holds a profit.
getConfigAdaptive ==
  LET db == IF IsNull(disk) THEN defaultDb ELSE Val(disk)
  IN  [ defaultConfig EXCEPT !.expectedArbPercentMin =
          IF db.stats.highestProfitPercent > 0 THEN @ + 1 ELSE @ ]

\* Mutant: the dry-run flag is read from the environment at every call.
getConfigFromEnv == [ defaultConfig EXCEPT !.dryRun = EnvFlag(envDryRun) ]

\* getConfig(): { ...defaultConfig, ...{} }
getConfig == defaultConfig

NoAttempts == [ poly |-> 0, probo |-> 0 ]
NoOutcome  == [ poly |-> "none", probo |-> "none" ]
NoOrder == [ poly |-> Null, probo |-> Null ]
NotReturned == [ kind |-> "none" ]
ReturnedNull == [ kind |-> "null" ]

Init ==
  /\ envDryRun \in BOOLEAN
  /\ \E eRetries \in EnvRetryValues, eMin \in EnvMinProfitValues,
        eRate \in EnvRateValues :
       defaultConfig = MakeDefaultConfig(envDryRun, eRetries, eMin, eRate)
  /\ ethPrivateKey \in {"", "key"}
  /\ cmd \in {"run", "start", "check"}
  /\ optDryRun \in BOOLEAN
  /\ (cmd # "start" => optDryRun = FALSE)
  /\ pc = "boot"
  /\ exitCode = Null
  /\ allowanceApproved = FALSE
  /\ retries = 0
  /\ approveCalls = 0
  /\ cycleCount = 0
  /\ statusLogs = 0
  /\ depthProbo = Null
  /\ depthPoly = Null
  /\ opportunity = Null
  /\ polyOrderResult = Placeholder
  /\ proboOrderResult = Placeholder
  /\ attempts = NoAttempts
  /\ lastOutcome = NoOutcome
  /\ lastOrder = NoOrder
  /\ ret = NotReturned
  /\ venueContacts = {}
  /\ executionLogged = FALSE
  /\ disk = Null
  /\ fsBroken \in BOOLEAN
  /\ diskFull = FALSE
  /\ defaultDb = EmptyDb
  /\ fetchLog = << >>
  /\ fetchFate = "none"
  /\ stale = {}

\* ------------------------------------------------------- entry points
\* Mutant: in dry-run the client is not needed and its key is not checked.
ClientInitializesUnlessDryRun(config, key) == key # "" \/ config.dryRun

\* polymarket.ts, at module load: clobClient = initializeClient(), which
\* throws when config.ethPrivateKey is empty; the error is rethrown.
ClientInitializes(config, key) == key # ""

\* The import of ./polymarket by index.ts throws: the process ends with an
\* uncaught error before any entry point runs.
LoadFails ==
  /\ pc = "boot"
  /\ ~ClientInitializes(getConfig, ethPrivateKey)
  /\ pc' = "loadFailed"
  /\ exitCode' = Some(1)
  /\ UNCHANGED << fetchVars, envDryRun, cfgVars, startVars, retries, cycleVars,
                  depthVars, execVars, venueContacts, dbVars >>

\* runBot: startArbBot() with the default interval.
RunBot ==
  /\ pc = "boot" /\ cmd = "run"
  /\ ClientInitializes(getConfig, ethPrivateKey)
  /\ pc' = "approving"
  /\ allowanceApproved' = FALSE /\ retries' = 0
  /\ UNCHANGED << fetchVars, envDryRun, cfgVars, exitCode, approveCalls,
                  cycleVars, depthVars, execVars, venueContacts, dbVars >>

\* cli.ts start: --dry-run sets process.env.DRY_RUN, then startArbBot.
CliStart ==
  /\ pc = "boot" /\ cmd = "start"
  /\ ClientInitializes(getConfig, ethPrivateKey)
  /\ envDryRun' = (envDryRun \/ optDryRun)
  /\ pc' = "approving"
  /\ allowanceApproved' = FALSE /\ retries' = 0
  /\ UNCHANGED << fetchVars, cfgVars, exitCode, approveCalls,
                  cycleVars, depthVars, execVars, venueContacts, dbVars >>

\* cli.ts check: sets process.env.DRY_RUN, then fetches both depths.
CliCheck ==
  /\ pc = "boot" /\ cmd = "check"
  /\ ClientInitializes(getConfig, ethPrivateKey)
  /\ envDryRun' = TRUE
  /\ pc' = "checkFetch"
  /\ UNCHANGED << fetchVars, cfgVars, exitCode, startVars, retries, cycleVars, depthVars,
                  execVars, venueContacts, dbVars >>

\* cli.ts check: Promise.all of the two getDepth calls; a rejection exits 1.
CheckFetch ==
  /\ pc = "checkFetch"
  /\ \E oProbo \in {"ok", "error"}, oPoly \in {"ok", "error"} :
       IF oProbo = "ok" /\ oPoly = "ok"
       THEN /\ \E bq \in ProboBooks : depthProbo' = Some(bq)
            /\ \E bp \in PolyBooks : depthPoly' = Some(bp)
            /\ pc' = "findAndExecArb"
            /\ exitCode' = exitCode
       ELSE /\ pc' = "exited"
            /\ exitCode' = Some(1)
            /\ UNCHANGED depthVars
  /\ UNCHANGED << fetchVars, envDryRun, cfgVars, startVars, retries, cycleVars,
                  execVars, venueContacts, dbVars >>

\* ------------------------------------------------- startArbBot: approval
\* Mutant: the retry loops stop one pass early.
LoopContinuesOffByOne(r, config) == r < config.maxRetries

\* while (retries <= config.maxRetries)
LoopContinues(r, config) == r <= config.maxRetries

\* Mutant: the catch branches never see the retries as used up.
RetriesNeverExhausted(r, config) == FALSE

\* if (retries > config.maxRetries), in the catch branches
RetriesExhausted(r, config) == r > config.maxRetries

\* Mutant: the approval loop does not look at allowanceApproved.
ApprovalAlwaysPending(approved) == TRUE

\* while (!allowanceApproved && ...)
ApprovalPending(approved) == ~approved

\* One pass of the approval loop body.
ApproveAttempt ==
  /\ pc = "approving"
  /\ ApprovalPending(allowanceApproved) /\ LoopContinues(retries, getConfig)
  /\ approveCalls' = approveCalls + 1
  /\ venueContacts' = IF ReachesVenue(getConfig) THEN venueContacts \cup {"approve"}
                      ELSE venueContacts
  /\ \E o \in ApproveOutcomes(getConfig) :
       IF o = "ok"
       THEN /\ allowanceApproved' = TRUE
            /\ UNCHANGED << retries, pc, exitCode >>
       ELSE /\ retries' = retries + 1
            /\ allowanceApproved' = allowanceApproved
            /\ IF RetriesExhausted(retries + 1, getConfig)
               THEN pc' = "fatal" /\ exitCode' = Some(1)
               ELSE UNCHANGED << pc, exitCode >>
  /\ UNCHANGED << fetchVars, envDryRun, cfgVars, cycleVars, depthVars, execVars, dbVars >>

\* The approval loop's condition is false: monitoring starts.
ApproveLoopExit ==
  /\ pc = "approving"
  /\ ~(ApprovalPending(allowanceApproved) /\ LoopContinues(retries, getConfig))
  /\ pc' = "cycle"
  /\ cycleCount' = 0
  /\ retries' = 0
  /\ UNCHANGED << fetchVars, envDryRun, cfgVars, exitCode, startVars, statusLogs,
                  depthVars, execVars, venueContacts, dbVars >>

\* -------------------------------------------- startArbBot: polling loop
statusIntervalCycles == 60

\* Mutant: the cycle fetches Polymarket's depth first.
PolyFetchedFirst == "poly"

\* The first try block of the cycle body is getDepthProbo's.
FirstFetch == "probo"
Other(v) == IF v = "probo" THEN "poly" ELSE "probo"
FetchPc(v) == IF v = "probo" THEN "fetchProbo" ELSE "fetchPoly"
RacePc(v) == IF v = "probo" THEN "raceProbo" ELSE "racePoly"
\* After the first fetch the throttle sleep, after the second the gate.
AfterRace(v) == IF v = FirstFetch THEN "throttleFetch" ELSE "gate"

\* Mutant: the status check sees the count before it is incremented.
StatusDueBeforeIncrement(count) == (count - 1) % statusIntervalCycles = 0

\* if (cycleCount % statusIntervalCycles === 0)
StatusDue(count) == count % statusIntervalCycles = 0

\* Top of the while (true) body: count the cycle, log status every 60th.
\* The model starts no cycle beyond the limit.
CycleBeginUpTo(limit) ==
  /\ pc = "cycle"
  /\ cycleCount < limit
  /\ cycleCount' = cycleCount + 1
  /\ statusLogs' = statusLogs + (IF StatusDue(cycleCount + 1) THEN 1 ELSE 0)
  /\ depthProbo' = Null
  /\ depthPoly' = Null
  /\ fetchLog' = << >>
  /\ pc' = FetchPc(FirstFetch)
  /\ UNCHANGED << envDryRun, cfgVars, exitCode, startVars, retries,
                  execVars, venueContacts, dbVars, fetchFate, stale >>

CycleBegin == CycleBeginUpTo(MaxCycles)

\* Mutant: a failed depth fetch is rethrown out of the polling loop.
AfterFetchFailureRethrows(next) == "fatal"

\* Mutant: after a failed first fetch the second starts without the throttle.
AfterFetchFailureSkipsThrottle(next) ==
  IF next = "throttleFetch" THEN FetchPc(Other(FirstFetch)) ELSE next

\* Where control goes after a depth fetch was caught failing: on.
AfterFetchFailure(next) == next

\* Mutant: the depth call is awaited alone, without the timer.
RaceWithoutTimer(fate) == fate \in {"ok", "error"}

\* Promise.race([getDepth(...), timer]) settles when getDepth settles, and
\* after 15 s when it does not.
RaceSettles(fate) == fate \in {"ok", "error", "timeout"}

\* getDepth(...) is called and raced against the 15 s timer.
IssueFetch(v) ==
  /\ pc = FetchPc(v)
  /\ pc' = RacePc(v)
  /\ fetchLog' = Append(fetchLog, v)
  /\ fetchFate' \in FetchOutcomes
  /\ UNCHANGED << envDryRun, cfgVars, exitCode, startVars, retries, cycleVars,
                  depthVars, execVars, venueContacts, dbVars, stale >>

IssueProbo == IssueFetch("probo")
IssuePoly == IssueFetch("poly")

\* Promise.race of getDepthProbo and the 15 s timer settles, inside its
\* try/catch.  A call that lost the race is left running.
FetchProbo ==
  /\ pc = "raceProbo"
  /\ RaceSettles(fetchFate)
  /\ IF fetchFate = "ok"
     THEN /\ \E b \in ProboBooks : depthProbo' = Some(b)
          /\ pc' = AfterRace("probo")
     ELSE /\ depthProbo' = Null
          /\ pc' = AfterFetchFailure(AfterRace("probo"))
  /\ stale' = IF fetchFate = "timeout" THEN stale \cup {"probo"} ELSE stale
  /\ fetchFate' = "none"
  /\ UNCHANGED << envDryRun, cfgVars, exitCode, startVars, retries, cycleVars,
                  depthPoly, execVars, venueContacts, dbVars, fetchLog >>

\* sleep(config.requestThrottleMs) between the two fetches.
ThrottleFetch ==
  /\ pc = "throttleFetch"
  /\ pc' = FetchPc(Other(FirstFetch))
  /\ UNCHANGED << fetchVars, envDryRun, cfgVars, exitCode, startVars, retries, cycleVars,
                  depthVars, execVars, venueContacts, dbVars >>

\* Promise.race of getDepthPoly and the 15 s timer settles, inside its
\* try/catch.  A call that lost the race is left running.
FetchPoly ==
  /\ pc = "racePoly"
  /\ RaceSettles(fetchFate)
  /\ IF fetchFate = "ok"
     THEN /\ \E b \in PolyBooks : depthPoly' = Some(b)
          /\ pc' = AfterRace("poly")
     ELSE /\ depthPoly' = Null
          /\ pc' = AfterFetchFailure(AfterRace("poly"))
  /\ stale' = IF fetchFate = "timeout" THEN stale \cup {"poly"} ELSE stale
  /\ fetchFate' = "none"
  /\ UNCHANGED << envDryRun, cfgVars, exitCode, startVars, retries, cycleVars,
                  depthProbo, execVars, venueContacts, dbVars, fetchLog >>

\* A getDepth call that lost its race settles at last; nothing awaits it.
LateSettle ==
  /\ \E v \in stale : stale' = stale \ {v}
  /\ UNCHANGED << envDryRun, cfgVars, pc, exitCode, startVars, retries, cycleVars,
                  depthVars, execVars, venueContacts, dbVars, fetchLog, fetchFate >>

\* Mutant: the gate looks at Polymarket's depth only.
OnlyPolyDepth(dProbo, dPoly) == ~IsNull(dPoly)

\* depthProbo && depthPoly
BothDepths(dProbo, dPoly) == ~IsNull(dProbo) /\ ~IsNull(dPoly)

\* if (depthProbo && depthPoly) findAndExecArb(...) else skip the cycle.
Gate ==
  /\ pc = "gate"
  /\ IF BothDepths(depthProbo, depthPoly)
     THEN pc' = "findAndExecArb" /\ UNCHANGED depthVars
     ELSE pc' = "sleep" /\ depthProbo' = Null /\ depthPoly' = Null
  /\ UNCHANGED << fetchVars, envDryRun, cfgVars, exitCode, startVars, retries, cycleVars,
                  execVars, venueContacts, dbVars >>

\* sleep(intervalMs + jitter), then the next pass of while (true).
CycleSleep ==
  /\ pc = "sleep"
  /\ pc' = "cycle"
  /\ UNCHANGED << fetchVars, envDryRun, cfgVars, exitCode, startVars, retries, cycleVars,
                  depthVars, execVars, venueContacts, dbVars >>

\* Whether the history store's file operations succeed.
FsOk == ~fsBroken
\* fs.readFileSync in initDatabase; fs.writeFileSync in saveDatabase and,
\* for a file that does not exist yet, in initDatabase.
ReadOk == FsOk
WriteOk == FsOk /\ ~diskFull
InitOk(dsk) == IF IsNull(dsk) THEN WriteOk ELSE ReadOk

\* Mutant: a failed file operation escapes logOpportunity and logExecution.
RecorderThrowsOnFailure(fsOk) == ~fsOk

\* Whether logOpportunity or logExecution throws into findAndExecArb: their
\* bodies, and those of initDatabase and saveDatabase, are try blocks whose
\* catch logs and returns.
RecorderThrows(fsOk) == FALSE

\* ------------------------------------------------------ findAndExecArb
\* Mutant: the viability check is missing.
ShouldExecuteFoundOnly(opp) == opp.found

\* Past both early returns: if (!opportunity.found) ..., if (!opportunity.isViable) ...
ShouldExecute(opp) == opp.found /\ opp.isViable

\* Evaluate, log the opportunity, return null unless found and viable (or
\* from the outer catch, had the recorder thrown).
Evaluate ==
  /\ pc = "findAndExecArb"
  /\ Len(initDatabase(disk, defaultDb, InitOk(disk)).db.opportunities) < MaxRecorded
  /\ LET opp == calculateArbOpportunity(Val(depthPoly), Val(depthProbo), getConfig)
     IN  /\ opportunity' = Some(opp)
         /\ LET st == logOpportunity(disk, defaultDb, opp, InitOk(disk), WriteOk)
            IN  disk' = st.disk /\ defaultDb' = st.defaultDb
         /\ UNCHANGED << fsBroken, diskFull >>
         /\ IF ShouldExecute(opp) /\ ~RecorderThrows(WriteOk)
            THEN pc' = "polyLoop" /\ ret' = NotReturned
            ELSE pc' = "returned" /\ ret' = ReturnedNull
  /\ polyOrderResult' = Placeholder
  /\ proboOrderResult' = Placeholder
  /\ retries' = 0
  /\ attempts' = NoAttempts
  /\ lastOutcome' = NoOutcome
  /\ lastOrder' = NoOrder
  /\ executionLogged' = FALSE
  /\ UNCHANGED << fetchVars, envDryRun, cfgVars, exitCode, startVars, cycleVars, depthVars,
                  venueContacts >>

\* What a createOrder rejection caught on the last allowed attempt does to
\* the call: findAndExecArb returns null there and then.
CatchReturnsNull(r, config) == RetriesExhausted(r, config)

\* createOrderPoly(config.polymarketTokenId, opportunity.polymarketPrice,
\* opportunity.polymarketQty, 'buy'): polymarket.ts's parameters are
\* (tokenId, price, size, side).
PolyOrderArgs(opp) ==
  [ side |-> "buy", price |-> opp.polymarketPrice, size |-> opp.polymarketQty ]

\* Mutant: the Probo leg is sized with the Polymarket leg's quantity.
ProboOrderArgsPolySize(opp) ==
  [ side |-> "buy", price |-> opp.proboPrice, size |-> opp.polymarketQty ]

\* createOrderProbo(config.proboTokenId, 'buy', opportunity.proboQty,
\* opportunity.proboPrice): probo.ts's parameters are (marketId, side, size,
\* price).
ProboOrderArgs(opp) ==
  [ side |-> "buy", price |-> opp.proboPrice, size |-> opp.proboQty ]

\* One pass of the Polymarket while body.
PolyOrderAttempt ==
  /\ pc = "polyLoop"
  /\ LoopContinues(retries, getConfig)
  /\ attempts' = [attempts EXCEPT !.poly = @ + 1]
  /\ lastOrder' = [lastOrder EXCEPT
                    !.poly = Some(PolyOrderArgs(Val(opportunity)))]
  /\ venueContacts' = IF ReachesVenue(getConfig) THEN venueContacts \cup {"poly"}
                    ELSE venueContacts
  /\ \E o \in OrderOutcomes(getConfig) :
       /\ lastOutcome' = [lastOutcome EXCEPT !.poly = o]
       /\ IF o = "throw"
          THEN /\ polyOrderResult' = polyOrderResult
               /\ retries' = retries + 1
               /\ IF CatchReturnsNull(retries + 1, getConfig)
                  THEN pc' = "returned" /\ ret' = ReturnedNull
                  ELSE UNCHANGED << pc, ret >>
          ELSE /\ polyOrderResult' = createOrder(getConfig, o)
               /\ ret' = ret
               /\ IF createOrder(getConfig, o).success
                  THEN pc' = "throttleOrders" /\ retries' = retries
                  ELSE pc' = pc /\ retries' = retries + 1
  /\ UNCHANGED << fetchVars, envDryRun, cfgVars, exitCode, startVars, cycleVars, depthVars,
                  opportunity, proboOrderResult, executionLogged, dbVars >>

\* The Polymarket while condition is false.
PolyLoopExit ==
  /\ pc = "polyLoop"
  /\ ~LoopContinues(retries, getConfig)
  /\ pc' = "throttleOrders"
  /\ UNCHANGED << fetchVars, envDryRun, cfgVars, exitCode, startVars, retries, cycleVars,
                  depthVars, execVars, venueContacts, dbVars >>

\* Mutant: the Probo loop goes on from the count the Polymarket loop left.
ProboRetriesCarried(r) == r

\* retries = 0, before the Probo loop
ProboRetriesStart(r) == 0

\* sleep(config.requestThrottleMs), then the Probo placeholder and retries = 0.
ThrottleOrders ==
  /\ pc = "throttleOrders"
  /\ pc' = "proboLoop"
  /\ proboOrderResult' = Placeholder
  /\ retries' = ProboRetriesStart(retries)
  /\ UNCHANGED << fetchVars, envDryRun, cfgVars, exitCode, startVars, cycleVars, depthVars,
                  opportunity, polyOrderResult, attempts, lastOutcome, lastOrder,
                  ret, executionLogged, venueContacts, dbVars >>

\* One pass of the Probo while body.
ProboOrderAttempt ==
  /\ pc = "proboLoop"
  /\ LoopContinues(retries, getConfig)
  /\ attempts' = [attempts EXCEPT !.probo = @ + 1]
  /\ lastOrder' = [lastOrder EXCEPT
                    !.probo = Some(ProboOrderArgs(Val(opportunity)))]
  /\ venueContacts' = IF ReachesVenue(getConfig) THEN venueContacts \cup {"probo"}
                    ELSE venueContacts
  /\ \E o \in OrderOutcomes(getConfig) :
       /\ lastOutcome' = [lastOutcome EXCEPT !.probo = o]
       /\ IF o = "throw"
          THEN /\ proboOrderResult' = proboOrderResult
               /\ retries' = retries + 1
               /\ IF CatchReturnsNull(retries + 1, getConfig)
                  THEN pc' = "returned" /\ ret' = ReturnedNull
                  ELSE UNCHANGED << pc, ret >>
          ELSE /\ proboOrderResult' = createOrder(getConfig, o)
               /\ ret' = ret
               /\ IF createOrder(getConfig, o).success
                  THEN pc' = "finish" /\ retries' = retries
                  ELSE pc' = pc /\ retries' = retries + 1
  /\ UNCHANGED << fetchVars, envDryRun, cfgVars, exitCode, startVars, cycleVars, depthVars,
                  opportunity, polyOrderResult, executionLogged, dbVars >>

\* The Probo while condition is false.
ProboLoopExit ==
  /\ pc = "proboLoop"
  /\ ~LoopContinues(retries, getConfig)
  /\ pc' = "finish"
  /\ UNCHANGED << fetchVars, envDryRun, cfgVars, exitCode, startVars, retries, cycleVars,
                  depthVars, execVars, venueContacts, dbVars >>

ExecutionResult(poly, probo, opp) ==
  [ kind |-> "result", polymarketOrder |-> poly, proboOrder |-> probo,
    opportunity |-> opp ]

\* Build the ExecutionResult, log it, return it.
Finish ==
  /\ pc = "finish"
  /\ LET result == ExecutionResult(polyOrderResult, proboOrderResult, Val(opportunity))
     IN  /\ LET st == logExecution(disk, defaultDb, result, InitOk(disk), WriteOk)
            IN  disk' = st.disk /\ defaultDb' = st.defaultDb
         /\ UNCHANGED << fsBroken, diskFull >>
         /\ ret' = IF RecorderThrows(WriteOk) THEN ReturnedNull ELSE result
  /\ executionLogged' = TRUE
  /\ pc' = "returned"
  /\ UNCHANGED << fetchVars, envDryRun, cfgVars, exitCode, startVars, retries, cycleVars,
                  depthVars, opportunity, polyOrderResult,
                  proboOrderResult, attempts, lastOutcome, lastOrder,
                  venueContacts >>

\* Mutant: the loop goes round again without its inter-cycle sleep.
AfterCallSkipsSleep == "cycle"

\* After await findAndExecArb(...) the try block ends; next is the sleep.
AfterCall == "sleep"

\* Mutant: check reports a call that returned null as a failure.
CheckExitCodeByResult(r) == IF r = ReturnedNull THEN 1 ELSE 0

\* cli.ts check: process.exit(0) after await findAndExecArb(...), whose
\* return value is not looked at.
CheckExitCode(r) == 0

\* Back in the caller: check exits 0, the polling loop goes to its sleep.
ReturnToCaller ==
  /\ pc = "returned"
  /\ IF cmd = "check"
     THEN pc' = "exited" /\ exitCode' = Some(CheckExitCode(ret))
     ELSE pc' = AfterCall /\ exitCode' = exitCode
  /\ opportunity' = Null
  /\ polyOrderResult' = Placeholder
  /\ proboOrderResult' = Placeholder
  /\ attempts' = NoAttempts
  /\ lastOutcome' = NoOutcome
  /\ lastOrder' = NoOrder
  /\ ret' = NotReturned
  /\ executionLogged' = FALSE
  /\ retries' = 0
  /\ depthProbo' = Null
  /\ depthPoly' = Null
  /\ UNCHANGED << fetchVars, envDryRun, cfgVars, startVars, cycleVars, 
                  venueContacts, dbVars >>

\* -------------------------------------------------------- specification
Next ==
  \/ LoadFails \/ RunBot \/ CliStart \/ CliCheck \/ CheckFetch
  \/ ApproveAttempt \/ ApproveLoopExit
  \/ CycleBegin \/ IssueProbo \/ FetchProbo \/ ThrottleFetch
  \/ IssuePoly \/ FetchPoly \/ LateSettle
  \/ Gate \/ CycleSleep
  \/ Evaluate \/ PolyOrderAttempt \/ PolyLoopExit \/ ThrottleOrders
  \/ ProboOrderAttempt \/ ProboLoopExit \/ Finish \/ ReturnToCaller

Spec == Init /\ [][Next]_vars

\* The steps the single thread of control takes: each is a timer firing, a
\* venue call returning or synchronous code, so each is taken once enabled.
\* An abandoned getDepth call (LateSettle) need never settle.
LoopStep ==
  \/ LoadFails \/ RunBot \/ CliStart \/ CliCheck \/ CheckFetch
  \/ ApproveAttempt \/ ApproveLoopExit
  \/ CycleBegin \/ IssueProbo \/ FetchProbo \/ ThrottleFetch
  \/ IssuePoly \/ FetchPoly
  \/ Gate \/ CycleSleep
  \/ Evaluate \/ PolyOrderAttempt \/ PolyLoopExit \/ ThrottleOrders
  \/ ProboOrderAttempt \/ ProboLoopExit \/ Finish \/ ReturnToCaller

\* The runs with real orders, one retry, the default minimum profit and a
\* history file that can be written.
LiveInit ==
  /\ Init
  /\ ~envDryRun /\ ~optDryRun /\ ~fsBroken
  /\ defaultConfig.maxRetries = 1
  /\ defaultConfig.expectedArbPercentMin = DefaultMinProfit

LiveSpec == LiveInit /\ [][Next]_vars /\ WF_vars(LoopStep)

\* ------------------------------------------------------- the long runs
\* runBot in dry-run with the default configuration and a writable history
\* file, polling for MaxStatusCycles cycles.  In dry-run every order
\* succeeds at its first attempt, so the retry loops never run out.
StatusInit ==
  /\ Init
  /\ cmd = "run" /\ envDryRun /\ ~fsBroken /\ ethPrivateKey # ""
  /\ defaultConfig = MakeDefaultConfig(TRUE, <<>>, <<>>, <<>>)

LongCycleBegin == CycleBeginUpTo(MaxStatusCycles)

StatusNext ==
  \/ RunBot \/ ApproveAttempt \/ ApproveLoopExit
  \/ LongCycleBegin \/ IssueProbo \/ FetchProbo \/ ThrottleFetch
  \/ IssuePoly \/ FetchPoly \/ LateSettle
  \/ Gate \/ CycleSleep
  \/ Evaluate \/ PolyOrderAttempt \/ ThrottleOrders
  \/ ProboOrderAttempt \/ Finish \/ ReturnToCaller

StatusSpec == StatusInit /\ [][StatusNext]_vars

\* ---------------------------------------------------- the history store
\* runBot with real orders, one retry and the default minimum profit, on a
\* volume that fills up and is freed again while the bot polls: while it is
\* full the history file can be read but not written.
StoreInit ==
  /\ Init
  /\ cmd = "run" /\ ~envDryRun /\ ~fsBroken /\ ethPrivateKey # ""
  /\ defaultConfig = MakeDefaultConfig(FALSE, <<1>>, <<>>, <<>>)

\* The volume runs out of space, or space is freed.
DiskChange ==
  /\ diskFull' = ~diskFull
  /\ UNCHANGED << envDryRun, cfgVars, pc, exitCode, startVars, retries, cycleVars,
                  depthVars, execVars, venueContacts, disk, defaultDb, fsBroken,
                  fetchVars >>

StoreNext ==
  \/ RunBot \/ ApproveAttempt \/ ApproveLoopExit
  \/ CycleBegin \/ IssueProbo \/ FetchProbo \/ ThrottleFetch
  \/ IssuePoly \/ FetchPoly \/ LateSettle
  \/ Gate \/ CycleSleep
  \/ Evaluate \/ PolyOrderAttempt \/ PolyLoopExit \/ ThrottleOrders
  \/ ProboOrderAttempt \/ ProboLoopExit \/ Finish \/ ReturnToCaller
  \/ DiskChange

StoreSpec == StoreInit /\ [][StoreNext]_vars

\* ------------------------------------------------- the evaluator alone
\* calculateArbOpportunity called on its own, on sell books of at most
\* MaxLevels of these price levels in any key order, each with a zero or a
\* positive quantity.  0.74 and 2 also come spelled "0.740" and "2.0".
EvalPolyKeys == {<<74, TRUE>>, <<74, FALSE>>, <<80, TRUE>>, <<83, TRUE>>, <<85, TRUE>>}
EvalProboKeys == {<<170, TRUE>>, <<200, TRUE>>, <<200, FALSE>>}
EvalPolyBooks == BooksUpTo(EvalPolyKeys, PolyQtys, MaxLevels)
EvalProboBooks == BooksUpTo(EvalProboKeys, ProboQtys, MaxLevels)
EvalMinProfitValues == {<<>>, <<6>>, <<7>>}

EvalInit ==
  /\ envDryRun = TRUE
  /\ \E eMin \in EvalMinProfitValues :
       defaultConfig = MakeDefaultConfig(envDryRun, <<>>, eMin, <<>>)
  /\ ethPrivateKey = "key"
  /\ cmd = "run"
  /\ optDryRun = FALSE
  /\ pc = "evaluate"
  /\ exitCode = Null
  /\ allowanceApproved = FALSE
  /\ retries = 0
  /\ approveCalls = 0
  /\ cycleCount = 0
  /\ statusLogs = 0
  /\ \E b \in EvalProboBooks : depthProbo = Some(b)
  /\ \E b \in EvalPolyBooks : depthPoly = Some(b)
  /\ opportunity = Null
  /\ polyOrderResult = Placeholder
  /\ proboOrderResult = Placeholder
  /\ attempts = NoAttempts
  /\ lastOutcome = NoOutcome
  /\ lastOrder = NoOrder
  /\ ret = NotReturned
  /\ venueContacts = {}
  /\ executionLogged = FALSE
  /\ disk = Null
  /\ fsBroken = FALSE
  /\ diskFull = FALSE
  /\ defaultDb = EmptyDb
  /\ fetchLog = << >>
  /\ fetchFate = "none"
  /\ stale = {}

\* One call of calculateArbOpportunity(depthPoly, depthProbo).
CallEvaluator ==
  /\ pc = "evaluate"
  /\ \E throws \in BOOLEAN :
       opportunity' = Some(TryCalculate(Val(depthPoly), Val(depthProbo),
                                        getConfig, throws))
  /\ pc' = "evaluated"
  /\ UNCHANGED << envDryRun, cfgVars, exitCode, startVars, retries, cycleVars,
                  depthVars, polyOrderResult, proboOrderResult, attempts,
                  lastOutcome, lastOrder, ret, executionLogged, venueContacts, dbVars,
                  fetchVars >>

\* What findAndExecArb does with the result before the depths are evaluated
\* a second time: logOpportunity and, for a viable opportunity, the two
\* orders (dry-run here, so each succeeds at once) and logExecution.
RestOfCall ==
  /\ pc = "evaluated"
  /\ LET opp    == Val(opportunity)
         logged == logOpportunity(disk, defaultDb, opp, FsOk, FsOk)
         result == ExecutionResult(createOrder(getConfig, "ok"),
                                   createOrder(getConfig, "ok"), opp)
         done   == IF ShouldExecute(opp)
                   THEN logExecution(logged.disk, logged.defaultDb, result, FsOk, FsOk)
                   ELSE logged
     IN  /\ disk' = done.disk /\ defaultDb' = done.defaultDb
         /\ ret' = IF ShouldExecute(opp) THEN result ELSE ReturnedNull
  /\ pc' = "between"
  /\ UNCHANGED << envDryRun, cfgVars, exitCode, startVars, retries, cycleVars,
                  depthVars, opportunity, polyOrderResult, proboOrderResult,
                  attempts, lastOutcome, lastOrder, executionLogged, venueContacts,
                  fsBroken, diskFull, fetchVars >>

\* calculateArbOpportunity(depthPoly, depthProbo) called again on the same
\* two depth objects; what made the first call throw makes this one throw.
CallEvaluatorAgain ==
  /\ pc = "between"
  /\ opportunity' = Some(TryCalculate(Val(depthPoly), Val(depthProbo), getConfig,
                                      Val(opportunity).reason = "error"))
  /\ pc' = "evaluatedAgain"
  /\ UNCHANGED << envDryRun, cfgVars, exitCode, startVars, retries, cycleVars,
                  depthVars, polyOrderResult, proboOrderResult, attempts,
                  lastOutcome, lastOrder, ret, executionLogged, venueContacts, dbVars,
                  fetchVars >>

EvalNext == CallEvaluator \/ RestOfCall \/ CallEvaluatorAgain

EvalSpec == EvalInit /\ [][EvalNext]_vars

\* ------------------------------------------------------------- claims
MaxAttempts == getConfig.maxRetries + 1
Venues == {"poly", "probo"}
CycleBodyPcs == { "fetchProbo", "raceProbo", "throttleFetch", "fetchPoly",
                  "racePoly", "gate",
                  "findAndExecArb", "polyLoop", "throttleOrders", "proboLoop",
                  "finish", "returned" }
\* Inside the findAndExecArb call of a cycle.
ExecPcs == { "findAndExecArb", "polyLoop", "throttleOrders", "proboLoop",
             "finish", "returned" }
PollingPcs == CycleBodyPcs \cup {"cycle", "sleep"}
Polling == cmd # "check" /\ pc \in PollingPcs
\* findAndExecArb has returned and its caller has not yet gone on.
Returned == pc = "returned"
ViableCall == ~IsNull(opportunity) /\ ShouldExecute(Val(opportunity))
\* The venue's attempt sequence of this call is over.
PolyEnded ==
  \/ pc \in {"throttleOrders", "proboLoop", "finish"}
  \/ Returned /\ ViableCall
ProboEnded ==
  \/ pc = "finish"
  \/ Returned /\ ViableCall /\ attempts.probo > 0
DryRunRequested == cmd = "check" \/ (cmd = "start" /\ optDryRun)

\* C1: a venue whose attempts all failed got exactly maxRetries + 1 of
\* them, no venue ever gets more, and after a successful attempt no
\* further attempt is made on that venue in the same call.
C1_RetryBound ==
  /\ [](/\ attempts.poly <= MaxAttempts
        /\ attempts.probo <= MaxAttempts
        /\ (PolyEnded /\ lastOutcome.poly # "ok" => attempts.poly = MaxAttempts)
        /\ (ProboEnded /\ lastOutcome.probo # "ok" => attempts.probo = MaxAttempts))
  /\ [][\A v \in Venues :
          lastOutcome[v] = "ok" => attempts'[v] = attempts[v] \/ attempts'[v] = 0]_vars

C1_Witness ==
  /\ pc = "finish"
  /\ lastOutcome.poly = "ok" /\ attempts.poly = 2
  /\ lastOutcome.probo = "fail" /\ attempts.probo = MaxAttempts
  /\ ~proboOrderResult.success

\* C2: for a viable opportunity, once both venue sequences have ended,
\* findAndExecArb returns a non-null ExecutionResult whose entries are the
\* results the two sequences ended with.
C2_AlwaysReturnsResult ==
  Returned /\ ViableCall /\ attempts.poly > 0 /\ attempts.probo > 0
    => /\ ret.kind = "result"
       /\ ret.polymarketOrder = polyOrderResult
       /\ ret.proboOrder = proboOrderResult

\* C3: a call in which an attempt threw ends as if the throw had been an
\* unsuccessful result: the venue got its attempts, the other venue's
\* sequence ran, the execution was logged and the ExecutionResult returned.
C3_ThrowLikeFailure ==
  Returned /\ ViableCall /\ (lastOutcome.poly = "throw" \/ lastOutcome.probo = "throw")
    => /\ attempts.poly >= 1
       /\ attempts.probo >= 1
       /\ executionLogged
       /\ ret = ExecutionResult(polyOrderResult, proboOrderResult, Val(opportunity))

\* C4: Polymarket succeeds on its first attempt and Probo fails all
\* maxRetries + 1 attempts: the ExecutionResult is returned with
\* polymarketOrder.success and not proboOrder.success, and it is logged.
C4_PartialFailureRecorded ==
  ( /\ Returned /\ ViableCall
    /\ attempts.poly = 1 /\ lastOutcome.poly = "ok"
    /\ attempts.probo = MaxAttempts /\ lastOutcome.probo \in {"fail", "throw"} )
    => /\ ret.kind = "result"
       /\ ret.polymarketOrder.success
       /\ ~ret.proboOrder.success
       /\ executionLogged

\* C5: when the Polymarket sequence has ended with every attempt failed,
\* the call goes on to the Probo sequence: it does not return before Probo
\* was attempted.
C5_SecondLegStillAttempted ==
  Returned /\ ViableCall /\ lastOutcome.poly \in {"fail", "throw"}
    => attempts.probo >= 1

\* C6: orders are attempted, and executions logged, only for an opportunity
\* that is found and viable (combined price below the payout, profit at
\* least the configured minimum); for any other opportunity findAndExecArb
\* returns null with no order attempted and no execution logged.
C6_NoOrderUnlessViable ==
  /\ (attempts # NoAttempts \/ executionLogged \/ ret.kind = "result"
        => /\ ~IsNull(opportunity)
           /\ Val(opportunity).found /\ Val(opportunity).isViable
           /\ CombinedPrice(Val(opportunity).polymarketPrice,
                            Val(opportunity).proboPrice) < Exact(Payout)
           /\ Val(opportunity).profitPercent
                >= Exact(getConfig.expectedArbPercentMin * PercentScale))
  /\ (Returned /\ ~(Val(opportunity).found /\ Val(opportunity).isViable)
        => ret = ReturnedNull /\ attempts = NoAttempts /\ ~executionLogged)
  /\ (IsNull(opportunity) => attempts = NoAttempts /\ ~executionLogged)

C6_Witness ==
  /\ Returned
  /\ Val(opportunity).found /\ ~Val(opportunity).isViable
  /\ ret = ReturnedNull
  /\ attempts = NoAttempts

C8_CliDryRunHonoured ==
  DryRunRequested /\ pc # "boot"
    => getConfig.dryRun /\ venueContacts \cap Venues = {}

C10_LoopSurvivesFailures ==
  /\ [][Polling => pc' \in PollingPcs /\ exitCode' = Null]_vars
  /\ [][Polling /\ pc \in CycleBodyPcs /\ pc' \notin CycleBodyPcs
          => pc' = "sleep"]_vars
  /\ [][Polling /\ pc = "sleep" /\ pc' # pc => pc' = "cycle"]_vars
  /\ [](Polling /\ pc = "sleep" => ENABLED CycleSleep)
  /\ [](Polling /\ pc = "cycle" /\ cycleCount < MaxCycles => ENABLED CycleBegin)

\* A second cycle is under way after a first one in which a fetch failed,
\* an order sequence failed and the history store could not be written.
C10_Witness ==
  /\ Polling /\ cycleCount = 2 /\ pc = "fetchPoly"
  /\ IsNull(depthProbo)
  /\ fsBroken
  /\ Len(defaultDb.opportunities) = 1
  /\ defaultDb.stats.totalFailed = 1

\* C11: a polling cycle in which a depth was not obtained (fetch error or
\* timeout) is skipped: from the gate it goes to the sleep with the history
\* store and the venues untouched and no evaluation made; the evaluator and
\* the executor run only with both depths obtained in the same cycle.
C11_SkipWithoutBothDepths ==
  /\ [](Polling /\ pc \in ExecPcs
          => /\ ~IsNull(depthProbo) /\ ~IsNull(depthPoly)
             /\ Len(fetchLog) = 2)
  /\ [][Polling /\ pc = "gate" /\ (IsNull(depthProbo) \/ IsNull(depthPoly))
          => /\ pc' \in {"gate", "sleep"}
             /\ UNCHANGED << disk, defaultDb, venueContacts, opportunity,
                             attempts, executionLogged, ret >>]_vars

\* A first cycle whose Polymarket fetch timed out was skipped.
C11_Witness ==
  /\ Polling /\ pc = "sleep" /\ cycleCount = 1
  /\ "poly" \in stale /\ Len(fetchLog) = 2
  /\ IsNull(disk) /\ defaultDb = EmptyDb
  /\ venueContacts \cap Venues = {}

\* The order sequences of a findAndExecArb call: every Polymarket attempt
\* comes before the first Probo attempt, which is made with the Polymarket
\* sequence over (a success, or maxRetries + 1 attempts).
PolymarketOrdersFirst ==
  /\ attempts'.poly > attempts.poly => attempts.probo = 0
  /\ attempts'.probo > attempts.probo
       => /\ pc = "proboLoop"
          /\ lastOutcome.poly = "ok" \/ attempts.poly = MaxAttempts

History ==
  IF fsBroken THEN defaultDb ELSE IF IsNull(disk) THEN EmptyDb ELSE Val(disk)

\* C13: cycles do not overlap.  A cycle starts only from the loop head,
\* reached only by the completed inter-cycle sleep, itself begun only when
\* the cycle's fetches are over and its findAndExecArb call (if any) has
\* returned; so there are never more evaluations than cycles, and an
\* execution is recorded once, by the call that made it.
C13_CyclesDoNotOverlap ==
  /\ [][cycleCount' # cycleCount
          => /\ pc = "cycle" /\ pc' = FetchPc(FirstFetch)
             /\ IsNull(opportunity) /\ attempts = NoAttempts
             /\ ~executionLogged /\ fetchFate = "none"]_vars
  /\ [][Polling /\ pc' = "cycle" /\ pc # "cycle" => pc = "sleep"]_vars
  /\ [][Polling /\ pc' = "sleep" /\ pc # "sleep"
          => pc \in {"gate", "returned"} /\ Len(fetchLog) = 2]_vars
  /\ [][History'.stats.totalExecuted # History.stats.totalExecuted
          => pc = "finish" /\ ~executionLogged /\ executionLogged']_vars
  /\ [](Polling => /\ History.stats.totalOpportunitiesFound <= cycleCount
                    /\ History.stats.totalExecuted
                         <= History.stats.totalOpportunitiesFound)

\* A second cycle's execution is under way after the first cycle's execution
\* was completed and recorded.
C13_Witness ==
  /\ Polling /\ cycleCount = 2 /\ pc = "proboLoop"
  /\ History.stats.totalExecuted = 1
  /\ History.stats.totalOpportunitiesFound = 2

\* Venue network calls in flight: the getDepth call being awaited, and the
\* getDepth calls that lost their race to the timer and are still running.
InFlight ==
  (IF pc \in {"raceProbo", "racePoly"} THEN 1 ELSE 0) + Cardinality(stale)

\* C14: at most one venue network call is in flight at any moment of the
\* polling loop; a fetch that timed out is no longer in flight when the next
\* venue call is issued.
C14_OneVenueCallInFlight ==
  Polling => InFlight <= 1

\* C15: a depth fetch that never returns is ended by the 15 s timer and
\* counts as unavailable for the cycle; with timers firing and order calls
\* returning, every cycle under way reaches its inter-cycle sleep, and after
\* the sleep the next cycle starts.
C15_HungFetchDoesNotStallLoop ==
  /\ (Polling /\ pc = "raceProbo" /\ fetchFate = "timeout")
        ~> (pc = "throttleFetch" /\ IsNull(depthProbo))
  /\ (Polling /\ pc = "racePoly" /\ fetchFate = "timeout")
        ~> (pc = "gate" /\ IsNull(depthPoly))
  /\ (Polling /\ pc \in CycleBodyPcs) ~> (pc = "sleep")
  /\ \A n \in 1..(MaxCycles - 1) :
       (Polling /\ pc = "sleep" /\ cycleCount = n)
         ~> (pc \in CycleBodyPcs /\ cycleCount = n + 1)

\* The second cycle has reached its sleep although a fetch of each venue
\* never returned.
C15_Witness ==
  /\ Polling /\ pc = "sleep" /\ cycleCount = 2
  /\ stale = {"probo", "poly"}

\* The evaluator has returned; what it was given and what it gave back.
Evaluated == pc = "evaluated"
Opp == Val(opportunity)
BestAskPoly == findLowestAskPrice(Val(depthPoly))
BestAskProbo == findLowestAskPrice(Val(depthProbo))
BothAsks == ~IsNull(BestAskPoly) /\ ~IsNull(BestAskProbo)
\* No price level of the book has a quantity above zero.
NoPositiveLevel(book) == \A i \in DOMAIN book : book[i].qty = 0
Threw == Opp.reason = "error"

\* C16: for all best asks with bestAskA * 10 + bestAskB >= 10, equality
\* included, calculateArbOpportunity returns found = false.
C16_NoArbitrageAtOrAbovePayout ==
  Evaluated /\ BothAsks
    /\ DecimalCombined(Val(BestAskPoly), Val(BestAskProbo)) >= Payout
    => ~Opp.found

C18_NoPositiveLevelNotFound ==
  Evaluated /\ ~Threw
    /\ (NoPositiveLevel(Val(depthPoly)) \/ NoPositiveLevel(Val(depthProbo)))
    => ~Opp.found /\ Opp.reason = "missing"

\* Polymarket's book holds zero-quantity levels only, Probo's has an ask.
C18_Witness ==
  /\ Evaluated /\ ~Threw
  /\ DOMAIN Val(depthPoly) # {} /\ NoPositiveLevel(Val(depthPoly))
  /\ ~IsNull(BestAskProbo)
  /\ ~Opp.found /\ Opp.reason = "missing"

\* C19: for a found opportunity profitPercent is (10 - (bestAskA * 10 +
\* bestAskB)) * 10, to within the rounding of one double, and isViable
\* holds exactly when that profit is at least the configured minimum, a
\* profit equal to the minimum included.
C19_ViableIffProfitAtLeastMinimum ==
  Evaluated /\ Opp.found
    => LET profit == DecimalProfit(Val(BestAskPoly), Val(BestAskProbo))
       IN  /\ Opp.profitPercent \in (Exact(profit) - 1)..(Exact(profit) + 1)
           /\ Opp.isViable
                <=> profit >= getConfig.expectedArbPercentMin * PercentScale

\* C20: whatever path the evaluator takes, isViable implies found, and
\* found = false implies profitPercent = 0 and both quantities 0; the call
\* always ends with an ArbOpportunity.
C20_ResultInvariants ==
  Evaluated
    => /\ ~IsNull(opportunity)
       /\ Opp.isViable => Opp.found
       /\ ~Opp.found => /\ Opp.profitPercent = 0
                        /\ Opp.polymarketQty = <<0, 1>>
                        /\ Opp.proboQty = <<0, 1>>
       /\ Opp.reason \in {"missing", "exceeds", "error", "below", "none"}
       /\ Opp.found <=> Opp.reason \in {"below", "none"}

\* The no-arbitrage path was taken with a computed profit below zero.
C20_Witness ==
  /\ Evaluated /\ ~Opp.found /\ Opp.reason = "exceeds"
  /\ Opp.polymarketPrice = 85 /\ Opp.proboPrice = 200
  /\ Opp.profitPercent = 0

\* The quantity the book offers at a price, however the level's key is spelled.
AvailableAt(book, price) ==
  LET hits == SelectSeq(book, LAMBDA l : l.key[1] = price)
  IN  <<hits[1].qty, 1>>

\* C21: for every found opportunity each leg's matched size is at most the
\* quantity the leg's book offers at its best ask: polymarketQty <= the
\* quantity at Polymarket's best ask, proboQty <= the quantity at Probo's.
C21_MatchedSizeWithinDepth ==
  Evaluated /\ Opp.found
    => /\ LeqQ(Opp.polymarketQty, AvailableAt(Val(depthPoly), Opp.polymarketPrice))
       /\ LeqQ(Opp.proboQty, AvailableAt(Val(depthProbo), Opp.proboPrice))

\* C22: with r = conversionRate / 10, qtyA and qtyB the quantities at the
\* two best asks, a found opportunity carries (qtyA, qtyA * r) when
\* qtyA * r <= qtyB and (qtyB / r, qtyB) otherwise, and in both cases
\* proboQty = polymarketQty * r.
C22_QuantityMatching ==
  Evaluated /\ Opp.found
    => LET qtyA == AvailableAt(Val(depthPoly), Opp.polymarketPrice)
           qtyB == AvailableAt(Val(depthProbo), Opp.proboPrice)
           rate == getConfig.dollarPriceInr
           Same(a, b) == LeqQ(a, b) /\ LeqQ(b, a)
       IN  /\ IF LeqQ(TimesRate(qtyA, rate), qtyB)
              THEN Same(Opp.polymarketQty, qtyA)
                   /\ Same(Opp.proboQty, TimesRate(qtyA, rate))
              ELSE Same(Opp.polymarketQty, OverRate(qtyB, rate))
                   /\ Same(Opp.proboQty, qtyB)
           /\ Same(Opp.proboQty, TimesRate(Opp.polymarketQty, rate))

\* C23: the price reported for each venue is the numerically smallest price
\* among the venue's sell levels with quantity > 0: a zero-quantity level is
\* never selected, even at the lowest price, whatever order the levels have
\* in the book.
C23_BestAskIsLowestPositiveLevel ==
  Evaluated /\ ~Threw
    => LET Positive(book) == { l \in { book[i] : i \in DOMAIN book } : l.qty > 0 }
           Lowest(book, price) ==
             /\ \E l \in Positive(book) : l.key[1] = price
             /\ \A l \in Positive(book) : price <= l.key[1]
           poly == Val(depthPoly)
           probo == Val(depthProbo)
       IN  /\ Positive(poly) = {} <=> IsNull(BestAskPoly)
           /\ Positive(probo) = {} <=> IsNull(BestAskProbo)
           /\ Positive(poly) # {} => Lowest(poly, Val(BestAskPoly))
           /\ Positive(probo) # {} => Lowest(probo, Val(BestAskProbo))
           /\ Positive(poly) # {} /\ Positive(probo) # {}
                => /\ Lowest(poly, Opp.polymarketPrice)
                   /\ Lowest(probo, Opp.proboPrice)

\* Polymarket's book lists 0.85 before 0.8 and holds 0.74 with quantity 0;
\* Probo's lists 2 before 1.7.  The prices reported are 0.8 and 1.7.
C23_Witness ==
  /\ Evaluated /\ ~Threw
  /\ LET poly == Val(depthPoly)
         probo == Val(depthProbo)
     IN  /\ Len(poly) = 3 /\ Len(probo) = 2
         /\ poly[1].key[1] = 85 /\ poly[1].qty > 0
         /\ \E i \in DOMAIN poly : poly[i].key[1] = 74 /\ poly[i].qty = 0
         /\ \E i \in DOMAIN poly : poly[i].key[1] = 80 /\ poly[i].qty > 0
         /\ probo[1].key[1] = 200 /\ probo[1].qty > 0
         /\ probo[2].key[1] = 170 /\ probo[2].qty > 0
  /\ Opp.polymarketPrice = 80 /\ Opp.proboPrice = 170

C25_RecorderFailureDoesNotAbort ==
  /\ [](fsBroken /\ pc = "throttleOrders" => attempts.poly >= 1)
  /\ [](fsBroken /\ pc = "finish" => attempts.poly >= 1 /\ attempts.probo >= 1)
  /\ [][fsBroken /\ pc = "findAndExecArb" /\ pc' # pc
          => /\ opportunity' = Some(calculateArbOpportunity(
                                 Val(depthPoly), Val(depthProbo), getConfig))
             /\ ShouldExecute(Val(opportunity'))
                  => pc' = "polyLoop" /\ ret' = NotReturned]_vars
  /\ [][fsBroken /\ pc = "finish" /\ pc' # pc
          => /\ pc' = "returned"
             /\ ret' = ExecutionResult(polyOrderResult, proboOrderResult,
                                       Val(opportunity))]_vars

\* Nothing could be written, both venues were tried, the result came back.
C25_Witness ==
  /\ fsBroken /\ disk = Null
  /\ Returned /\ ret # ReturnedNull /\ ret # NotReturned
  /\ executionLogged
  /\ attempts.poly >= 1 /\ attempts.probo >= 1
  /\ ret.polymarketOrder.success /\ ~ret.proboOrder.success

\* C26: every option can be overridden from the environment with any
\* value: whatever environment built the configuration, getConfig returns
\* the supplied value of each option, 0 included, and the default only for
\* an option the environment leaves unset.
C26_EveryOptionOverridable ==
  pc # "boot"
    => \A dry \in BOOLEAN, eRetries \in EnvRetryValues,
          eMin \in EnvMinProfitValues, eRate \in EnvRateValues :
         LET Supplied(e, d) == IF e = <<>> THEN d ELSE e[1]
         IN  defaultConfig = MakeDefaultConfig(dry, eRetries, eMin, eRate)
               => /\ getConfig.dryRun = dry
                  /\ getConfig.maxRetries = Supplied(eRetries, DefaultMaxRetries)
                  /\ getConfig.expectedArbPercentMin = Supplied(eMin, DefaultMinProfit)
                  /\ getConfig.dollarPriceInr = Supplied(eRate, DefaultRate)

\* C27: the status log is emitted exactly in the cycles whose ordinal is a
\* positive multiple of 60, and the cycle counter goes up by exactly one
\* in every cycle, skipped and evaluated ones alike.
C27_StatusLogEverySixtiethCycle ==
  /\ [](statusLogs = cycleCount \div 60)
  /\ [][pc = "cycle" /\ pc' # pc => cycleCount' = cycleCount + 1]_vars
  /\ [][pc # "cycle" => cycleCount' = cycleCount]_vars
  /\ [][statusLogs' # statusLogs
          <=> pc = "cycle" /\ pc' # pc /\ cycleCount' % 60 = 0 /\ cycleCount' > 0]_vars
  /\ [][statusLogs' # statusLogs => statusLogs' = statusLogs + 1]_vars

\* The sixtieth cycle has begun and logged the status; of the cycles before
\* it some evaluated and the others were skipped.
C27_Witness ==
  /\ cycleCount = 60 /\ statusLogs = 1 /\ pc = "fetchProbo"
  /\ Len(History.opportunities) = MaxRecorded

C29_IndependentRetryBudgets ==
  /\ [](attempts.poly + attempts.probo <= 2 * MaxAttempts)
  /\ [](pc = "proboLoop" /\ attempts.probo = 0 => retries = 0)
  /\ [](ProboEnded /\ lastOutcome.probo # "ok"
          => attempts.probo = MaxAttempts /\ attempts.poly \in 1..MaxAttempts)
  /\ [](Returned /\ ret.kind = "result"
          => /\ attempts.poly >= 1 /\ attempts.probo >= 1
             /\ ret.polymarketOrder # Placeholder
             /\ ret.proboOrder # Placeholder)

\* Polymarket used its whole budget and so did Probo.
C29_Witness ==
  /\ Returned /\ ret.kind = "result"
  /\ attempts.poly = MaxAttempts /\ attempts.probo = MaxAttempts
  /\ ~ret.polymarketOrder.success /\ ~ret.proboOrder.success
  /\ ret.proboOrder = FailedOrder

\* C30: the allowance approval is retried within the same bound as an
\* order and happens at startup only: approveAllowance is called at most
\* maxRetries + 1 times, never again after its first success, and never
\* once the polling loop has started.
C30_ApprovalBoundedAtStartupOnly ==
  /\ [](approveCalls <= MaxAttempts)
  /\ [](Polling => allowanceApproved /\ approveCalls >= 1)
  /\ [][approveCalls' # approveCalls
          => /\ approveCalls' = approveCalls + 1
             /\ pc = "approving" /\ ~allowanceApproved
             /\ ~Polling /\ cycleCount = 0]_vars
  /\ [][allowanceApproved => allowanceApproved' /\ approveCalls' = approveCalls]_vars

\* The approval succeeded at the last attempt the bound allows and the
\* loop is polling.
C30_Witness ==
  /\ Polling /\ cycleCount = MaxCycles
  /\ allowanceApproved /\ approveCalls = MaxAttempts
  /\ "approve" \in venueContacts

\* C31: the check entry point exits with code 0 whenever both depth
\* fetches succeeded, whatever the evaluation found and whatever the order
\* attempts returned, and with code 1 when a depth fetch failed; it runs
\* findAndExecArb at most once and never enters the polling loop.
C31_CheckExitsAfterOneCycle ==
  /\ [](cmd = "check"
          => /\ cycleCount = 0 /\ approveCalls = 0
             /\ pc \in {"boot", "loadFailed", "checkFetch", "exited"} \cup ExecPcs
             /\ Len(History.opportunities) <= 1
             /\ (pc \in ExecPcs => ~IsNull(depthProbo) /\ ~IsNull(depthPoly))
             /\ (pc \in ExecPcs
                   => ENABLED (Evaluate \/ PolyOrderAttempt \/ PolyLoopExit
                                \/ ThrottleOrders \/ ProboOrderAttempt
                                \/ ProboLoopExit \/ Finish \/ ReturnToCaller))
             /\ (pc \in {"exited", "loadFailed"} <=> exitCode # Null))
  /\ [][cmd = "check" /\ pc = "checkFetch" /\ pc' # pc
          => \/ /\ pc' = "findAndExecArb" /\ exitCode' = Null
                /\ ~IsNull(depthProbo') /\ ~IsNull(depthPoly')
             \/ /\ pc' = "exited" /\ exitCode' = Some(1)
                /\ UNCHANGED << depthVars, disk, defaultDb, venueContacts >>]_vars
  /\ [][cmd = "check" /\ pc \in ExecPcs /\ pc' \notin ExecPcs
          => pc = "returned" /\ pc' = "exited" /\ exitCode' = Some(0)]_vars
  /\ [][cmd = "check" /\ pc = "exited" => UNCHANGED vars]_vars

\* check has exited with code 0 after a call in which real orders were
\* attempted and failed.
C31_Witness ==
  /\ cmd = "check" /\ pc = "exited" /\ exitCode = Some(0)
  /\ Len(History.opportunities) = 1
  /\ History.stats.totalFailed = 1
  /\ "poly" \in venueContacts

\* The history the next initDatabase call loads: the file, and while there
\* is no file the defaultDb object.
Stored == IF IsNull(disk) THEN defaultDb ELSE Val(disk)
\* A step of findAndExecArb up to its first return or its first order.
EvaluateStep == pc = "findAndExecArb" /\ pc' # pc
\* The store gains the record of the opportunity just evaluated.
RecordAppended ==
  Stored'.opportunities
    = Append(Stored.opportunities, OpportunityRecord(Val(opportunity')))
\* No step removes a record, moves one or changes the opportunity in it, and
\* only findAndExecArb's evaluation adds one.
RecordsKept ==
  /\ Len(Stored'.opportunities) >= Len(Stored.opportunities)
  /\ \A i \in DOMAIN Stored.opportunities :
       Stored'.opportunities[i].opportunity = Stored.opportunities[i].opportunity
  /\ ~EvaluateStep => Len(Stored'.opportunities) = Len(Stored.opportunities)

LogExecutionStep == pc = "finish" /\ pc' # pc

\* C33: stats.totalProfit changes only in logExecution for an execution
\* whose two orders both succeeded, and then grows by exactly that
\* opportunity's profitPercent (it does so whenever that call's write goes
\* through); a partial or total failure and any logOpportunity call leave
\* it unchanged.
C33_RealizedProfitOnlyOnSuccess ==
  /\ [][Stored'.stats.totalProfit # Stored.stats.totalProfit
          => /\ LogExecutionStep
             /\ polyOrderResult.success /\ proboOrderResult.success
             /\ Stored'.stats.totalProfit
                  = Stored.stats.totalProfit + Val(opportunity).profitPercent]_vars
  /\ [][LogExecutionStep /\ polyOrderResult.success /\ proboOrderResult.success
            /\ (WriteOk \/ IsNull(disk))
          => Stored'.stats.totalProfit
               = Stored.stats.totalProfit + Val(opportunity).profitPercent]_vars
  /\ [][LogExecutionStep /\ ~(polyOrderResult.success /\ proboOrderResult.success)
          => Stored'.stats.totalProfit = Stored.stats.totalProfit]_vars
  /\ [][EvaluateStep => Stored'.stats.totalProfit = Stored.stats.totalProfit]_vars

\* Two executions are recorded, one with both orders filled and one with a
\* failed leg: the profit of the first alone is realized.
C33_Witness ==
  /\ Returned /\ executionLogged
  /\ Stored.stats.totalSuccessful = 1 /\ Stored.stats.totalFailed = 1
  /\ Stored.stats.totalProfit = ProfitPercent(74, 200)
  /\ Stored.opportunities[1].opportunity.profitPercent = ProfitPercent(74, 200)
  /\ Stored.opportunities[2].opportunity.profitPercent = ProfitPercent(74, 200)

C35_MissingKeyFatalAtStartup ==
  /\ [](ethPrivateKey = ""
          => /\ pc \in {"boot", "loadFailed"}
             /\ approveCalls = 0 /\ cycleCount = 0
             /\ fetchLog = << >> /\ fetchFate = "none"
             /\ IsNull(depthProbo) /\ IsNull(depthPoly)
             /\ attempts = NoAttempts /\ venueContacts = {}
             /\ IsNull(opportunity) /\ Stored = EmptyDb
             /\ (pc = "boot" => ENABLED LoadFails)
             /\ (pc = "loadFailed" => exitCode # Null /\ exitCode # Some(0)))
  /\ [][ethPrivateKey = "" /\ pc = "boot" /\ pc' # pc
          => pc' = "loadFailed" /\ exitCode' = Some(1)]_vars
  /\ [][pc = "loadFailed" => UNCHANGED vars]_vars

\* check, which asks for dry-run, with DRY_RUN=true in the environment and
\* no private key: the process has failed at load.
C35_Witness ==
  /\ ethPrivateKey = "" /\ cmd = "check" /\ getConfig.dryRun
  /\ pc = "loadFailed" /\ exitCode = Some(1)

\* The largest of 0 and the profitPercent of every record of the store.
HighestRecorded ==
  LET profits == {0} \cup { Stored.opportunities[i].opportunity.profitPercent :
                              i \in DOMAIN Stored.opportunities }
  IN  CHOOSE m \in profits : \A x \in profits : x <= m

\* C36: in the store, after any sequence of logOpportunity and logExecution
\* calls starting from the empty store, stats.totalExecuted =
\* stats.totalSuccessful + stats.totalFailed, stats.totalExecuted <=
\* stats.totalOpportunitiesFound, and stats.highestProfitPercent is the
\* maximum of 0 and every logged profitPercent.
C36_StatsConsistent ==
  /\ Stored.stats.totalExecuted
       = Stored.stats.totalSuccessful + Stored.stats.totalFailed
  /\ Stored.stats.totalExecuted <= Stored.stats.totalOpportunitiesFound
  /\ Stored.stats.highestProfitPercent = HighestRecorded

\* The records of the store that logExecution has marked.
ExecutedRecords ==
  { i \in DOMAIN Stored.opportunities : Stored.opportunities[i].executed }

\* C37: the record logExecution marks is the one logOpportunity appended
\* for the same opportunity earlier in the same findAndExecArb call, also
\* when a history write fails in between: it is the last record, it holds
\* the call's opportunity and it was not marked before.  So a record has
\* executed = true only if the order sequences ran for its opportunity, one
\* record is marked per execution, and a record has success = true only if
\* both orders of that execution succeeded.
C37_ExecutionMarksOwnRecord ==
  /\ [][LogExecutionStep
          => LET before == Stored.opportunities
                 after  == Stored'.opportunities
             IN  \A i \in DOMAIN before :
                   after[i] # before[i]
                     => /\ i = Len(before)
                        /\ before[i] = OpportunityRecord(Val(opportunity))
                        /\ after[i].executed
                        /\ after[i].success = "true"
                             <=> polyOrderResult.success /\ proboOrderResult.success]_vars
  /\ [](\A i \in ExecutedRecords :
          ShouldExecute(Stored.opportunities[i].opportunity))
  /\ [](Cardinality(ExecutedRecords) = Stored.stats.totalExecuted)
  /\ [](Cardinality({ i \in ExecutedRecords : Stored.opportunities[i].success = "true" })
          = Stored.stats.totalSuccessful)

\* q > 0 on quantities, as JavaScript compares: false for NaN.
PositiveQ(q) == ~IsNaN(q) /\ q[1] > 0

\* C38: every opportunity with found = true, under a positive conversion
\* rate, has polymarketQty > 0 and proboQty > 0, so no viable opportunity
\* has a matched size that is not positive and no order of such a size is
\* submitted.
C38_MatchedSizesPositive ==
  Evaluated /\ Opp.found /\ getConfig.dollarPriceInr > 0
    => PositiveQ(Opp.polymarketQty) /\ PositiveQ(Opp.proboQty)

\* From the first order attempt to logExecution.
OrderPhase == pc \in {"polyLoop", "throttleOrders", "proboLoop", "finish"}

\* The opportunity evaluated from this cycle's two depths.
CycleOpportunity == calculateArbOpportunity(Val(depthPoly), Val(depthProbo), getConfig)

\* C39: every order attempt of one execution, first try and retries alike,
\* is a buy with that venue's price and matched quantity of the one
\* opportunity evaluated at the start of the cycle; between retries and
\* between the two legs no depth is fetched again and the opportunity is
\* not evaluated again; the ExecutionResult holds that same opportunity.
C39_OrdersCarryTheOpportunity ==
  /\ [][ /\ (attempts'.poly > attempts.poly
               => lastOrder'.poly =
                    Some([ side  |-> "buy",
                           price |-> CycleOpportunity.polymarketPrice,
                           size  |-> CycleOpportunity.polymarketQty ]))
         /\ (attempts'.probo > attempts.probo
               => lastOrder'.probo =
                    Some([ side  |-> "buy",
                           price |-> CycleOpportunity.proboPrice,
                           size  |-> CycleOpportunity.proboQty ]))
         /\ (attempts'.poly = attempts.poly /\ attempts'.poly > 0
               => lastOrder'.poly = lastOrder.poly)
         /\ (attempts'.probo = attempts.probo /\ attempts'.probo > 0
               => lastOrder'.probo = lastOrder.probo)
         /\ (OrderPhase
               => /\ opportunity' = opportunity
                  /\ depthVars' = depthVars
                  /\ fetchLog' = fetchLog) ]_vars
  /\ [](OrderPhase => opportunity = Some(CycleOpportunity))
  /\ [](Returned /\ ret \notin {NotReturned, ReturnedNull}
          => ret.opportunity = CycleOpportunity)

\* An execution that retried on both venues has returned its result.
C39_Witness ==
  /\ Returned /\ ret \notin {NotReturned, ReturnedNull}
  /\ attempts.poly > 1 /\ attempts.probo > 1
  /\ lastOrder.poly = Some(PolyOrderArgs(ret.opportunity))
  /\ lastOrder.probo = Some(ProboOrderArgs(ret.opportunity))
  /\ ret.opportunity.polymarketPrice # ret.opportunity.proboPrice

=============================================================================
